---- MODULE Spec2Model ----
(***************************************************************************)
(* pgavlin/text-layout: the item model (src/src/lib.rs), the greedy        *)
(* FirstFit layout (src/src/first_fit.rs) and the Knuth-Plass layout       *)
(* (src/src/knuth_plass.rs), as one state machine.  A behaviour is one     *)
(* call of layout_paragraph: Init is the state right after the layout      *)
(* struct is constructed from the caller's items, line width and           *)
(* configuration; each action is one iteration of the driver loop.         *)
(*                                                                         *)
(* Numbers are the f32 backend idealised: a finite value is an exact       *)
(* reduced fraction n/d (d > 0); +infinity is 1/0, -infinity is -1/0 and   *)
(* NaN is 0/0.  Item positions are 0-based as in the source; the TLA+      *)
(* sequence `items` is 1-based, so the item at position b is items[b+1].   *)
(***************************************************************************)
EXTENDS Integers, Sequences, FiniteSets, TLC

(***************************************************************************)
(* Bounds of the explored inputs.                                          *)
(***************************************************************************)
MaxLen == 3
MaxLineWidth == 3

(***************************************************************************)
(* Num (src/src/math.rs): the f32 backend.                                 *)
(***************************************************************************)
RECURSIVE GCD(_, _)
GCD(x, y) == IF y = 0 THEN x ELSE GCD(y, x % y)

Abs(i) == IF i < 0 THEN -i ELSE i

Sign(i) == IF i < 0 THEN -1 ELSE IF i > 0 THEN 1 ELSE 0

Norm(n, d) ==
    IF d = 0 THEN [n |-> Sign(n), d |-> 0]
    ELSE LET s == IF d < 0 THEN -1 ELSE 1
             g == GCD(Abs(n), Abs(d))
         IN  [n |-> (s * n) \div g, d |-> (s * d) \div g]

INFINITY == [n |-> 1, d |-> 0]

NEG_INFINITY == [n |-> -1, d |-> 0]

NaN == [n |-> 0, d |-> 0]

from(i) == [n |-> i, d |-> 1]

rat(num, denom) == Norm(num, denom)

IsNaN(x) == x.d = 0 /\ x.n = 0

IsFinite(x) == x.d # 0

\* PartialOrd on f32: every comparison with NaN is false.
RECURSIVE FracLt(_, _, _, _)
FracLt(an, ad, bn, bd) ==
    \* an/ad < bn/bd for ad, bd > 0, by continued fractions (no products).
    LET fa == an \div ad
        fb == bn \div bd
        ra == an % ad
        rb == bn % bd
    IN  IF fa # fb THEN fa < fb
        ELSE IF rb = 0 THEN FALSE
        ELSE IF ra = 0 THEN TRUE
        ELSE FracLt(bd, rb, ad, ra)

Lt(x, y) ==
    IF IsNaN(x) \/ IsNaN(y) THEN FALSE
    ELSE IF x.d = 0 \/ y.d = 0
         THEN (IF x.d = 0 /\ y.d = 0 THEN x.n < y.n
               ELSE IF x.d = 0 THEN x.n < 0
               ELSE y.n > 0)
    ELSE FracLt(x.n, x.d, y.n, y.d)

Gt(x, y) == Lt(y, x)

Eq(x, y) == ~IsNaN(x) /\ ~IsNaN(y) /\ x = y

Le(x, y) == Lt(x, y) \/ Eq(x, y)

Ge(x, y) == Le(y, x)

Neg(x) == [n |-> -x.n, d |-> x.d]

Add(x, y) ==
    IF x.d = 0 \/ y.d = 0
    THEN (IF IsNaN(x) \/ IsNaN(y) THEN NaN
          ELSE IF x.d = 0 /\ y.d = 0 THEN (IF x.n = y.n THEN x ELSE NaN)
          ELSE IF x.d = 0 THEN x
          ELSE y)
    ELSE LET g == GCD(x.d, y.d)
         IN  Norm(x.n * (y.d \div g) + y.n * (x.d \div g), (x.d \div g) * y.d)

Sub(x, y) == Add(x, Neg(y))

Mul(x, y) ==
    IF x.d = 0 \/ y.d = 0
    THEN [n |-> Sign(x.n) * Sign(y.n), d |-> 0]
    ELSE LET g1 == GCD(Abs(x.n), y.d)
             g2 == GCD(Abs(y.n), x.d)
         IN  Norm((x.n \div g1) * (y.n \div g2), (x.d \div g2) * (y.d \div g1))

Div(x, y) ==
    \* x / y; IEEE: finite/0 is a signed infinity, 0/0 and inf/inf are NaN.
    IF y.d = 0
    THEN (IF IsNaN(y) \/ x.d = 0 THEN NaN ELSE from(0))
    ELSE IF y.n = 0
         THEN [n |-> Sign(x.n), d |-> 0]
    ELSE Mul(x, Norm(y.d, y.n))

abs(x) == [n |-> Abs(x.n), d |-> x.d]

RECURSIVE powi(_, _)
powi(x, y) == IF y = 0 THEN from(1) ELSE Mul(x, powi(x, y - 1))

(***************************************************************************)
(* Item (src/src/lib.rs).  Every item carries all fields; the ones its     *)
(* kind does not have are zero.                                            *)
(***************************************************************************)
Box(w) ==
    [kind |-> "Box", width |-> w, stretch |-> from(0), shrink |-> from(0),
     cost |-> from(0), flagged |-> FALSE]

Glue(w, y, z) ==
    [kind |-> "Glue", width |-> w, stretch |-> y, shrink |-> z,
     cost |-> from(0), flagged |-> FALSE]

Penalty(w, c, f) ==
    [kind |-> "Penalty", width |-> w, stretch |-> from(0), shrink |-> from(0),
     cost |-> c, flagged |-> f]

penalty_cost(item) == IF item.kind = "Penalty" THEN item.cost ELSE from(0)

penalty_flag(item) ==
    IF item.kind = "Penalty" /\ item.flagged THEN from(1) ELSE from(0)

is_mandatory_break(item) == item.kind = "Penalty" /\ Eq(item.cost, NEG_INFINITY)

\* pred is an Option: << >> is None, <<item>> is Some(item).
is_legal_breakpoint(item, pred) ==
    CASE item.kind = "Box" ->
           [width |-> item.width, stretch |-> from(0), shrink |-> from(0),
            is_legal |-> FALSE]
      [] item.kind = "Glue" ->
           [width |-> item.width, stretch |-> item.stretch, shrink |-> item.shrink,
            is_legal |-> (pred # << >> /\ pred[1].kind = "Box")]
      [] item.kind = "Penalty" ->
           [width |-> item.width, stretch |-> from(0), shrink |-> from(0),
            is_legal |-> ~Eq(item.cost, INFINITY)]

\* The width a Penalty adds to the line that ends at it.
penalty_width(item) == IF item.kind = "Penalty" THEN item.width ELSE from(0)

\* Item::adjustment_ratio once the penalty width is added: wd is the line's width.
ItemRatioOfWidth(wd, stretch_, shrink_, lw) ==
    IF Lt(wd, lw)
    THEN (IF Gt(stretch_, from(0)) THEN Div(Sub(lw, wd), stretch_) ELSE INFINITY)
    ELSE IF Gt(wd, lw)
    THEN (IF Gt(shrink_, from(0)) THEN Div(Sub(lw, wd), shrink_) ELSE NEG_INFINITY)
    ELSE from(0)

\* Item::adjustment_ratio.
ItemAdjustmentRatio(item, w, stretch_, shrink_, lw) ==
    ItemRatioOfWidth(Add(w, penalty_width(item)), stretch_, shrink_, lw)

\* Line::glue_width for a line with adjustment ratio r.
glue_width(r, w, y, z) ==
    IF Lt(r, from(0)) THEN Add(w, Mul(z, r))
    ELSE IF Gt(r, from(0)) THEN Add(w, Mul(y, r))
    ELSE w

Line(at, r) == [break_at |-> at, adjustment_ratio |-> r]

(***************************************************************************)
(* The inputs of a call.                                                   *)
(***************************************************************************)
\* The paragraph's terminal item, as the examples build it.
Terminal == Penalty(from(0), NEG_INFINITY, TRUE)

\* The items a paragraph body is drawn from.
BodyItems ==
    { Box(from(1)),
      Glue(from(1), from(1), from(1)),
      Glue(from(0), from(1), from(1)),
      Penalty(from(1), from(10), TRUE),
      Penalty(from(0), INFINITY, FALSE),
      Penalty(from(0), NEG_INFINITY, TRUE) }

Bodies == UNION { [1..n -> BodyItems] : n \in 0..MaxLen }

\* "aaa bbb" of the greedy scenarios: three boxes, a space, three boxes, the
\* finishing glue and the terminal penalty.
AaaBbb ==
    << Box(from(1)), Box(from(1)), Box(from(1)),
       Glue(from(1), from(1), from(0)),
       Box(from(1)), Box(from(1)), Box(from(1)),
       Glue(from(0), INFINITY, from(0)),
       Penalty(from(0), NEG_INFINITY, TRUE) >>

\* Two words separated by a shrinkable space and followed by a shrinkable space:
\* at line width 1 they fit on one line (ratio -1) or on two (ratios 0 and -1).
LooseParagraph ==
    << Box(from(1)), Glue(from(0), from(1), from(1)),
       Box(from(1)), Glue(from(1), from(1), from(1)),
       Penalty(from(0), NEG_INFINITY, TRUE) >>

\* A paragraph opening with a flagged penalty (a hyphen): at line width 1 its
\* active nodes at the terminal penalty differ in line count.
UnevenParagraph ==
    << Penalty(from(1), from(10), TRUE), Glue(from(0), from(1), from(1)),
       Box(from(1)), Glue(from(0), from(1), from(1)), Box(from(1)),
       Penalty(from(0), NEG_INFINITY, TRUE) >>

\* Two boxes and a space, a hyphenated box followed by two shrinkable spaces,
\* then a box, a space and three boxes: at line width 2 the nodes active at
\* the last space do not fall out of reach in list order (the node at the
\* hyphen does, its neighbours do not).
DoubleSpaceParagraph ==
    << Box(from(1)), Box(from(1)), Glue(from(0), from(1), from(1)),
       Box(from(1)), Penalty(from(0), from(10), TRUE),
       Glue(from(0), from(1), from(1)), Glue(from(0), from(1), from(1)),
       Box(from(1)), Glue(from(0), from(1), from(1)),
       Box(from(1)), Box(from(1)), Box(from(1)), Glue(from(0), from(1), from(1)),
       Penalty(from(0), NEG_INFINITY, TRUE) >>

\* Two wide words and their spaces: each word takes the whole line, and two
\* of them are wider than the 8-bit Fixed backend can count.
WideParagraph ==
    << Box(from(5)), Glue(from(1), from(1), from(1)),
       Box(from(5)), Glue(from(1), from(1), from(1)),
       Penalty(from(0), NEG_INFINITY, TRUE) >>

Paragraphs == { Append(body, Terminal) : body \in Bodies }

Thresholds == { from(1), INFINITY }

FirstFitConfigs ==
    [strategy : {"FirstFit"}, threshold : Thresholds,
     allow_overflow : BOOLEAN, looseness : {0}]

KnuthPlassConfigs ==
    [strategy : {"KnuthPlass"}, threshold : Thresholds,
     allow_overflow : {FALSE}, looseness : {0, 1}]

Calls ==
    ([items : Paragraphs, line_width : { from(w) : w \in 1..MaxLineWidth }]
       \cup [items : {AaaBbb}, line_width : { from(3), from(7) }]
       \cup [items : {LooseParagraph, UnevenParagraph}, line_width : { from(1) }]
       \cup [items : {DoubleSpaceParagraph}, line_width : { from(2) }]
       \cup [items : {WideParagraph}, line_width : { from(5) }])

VARIABLES
    items,            \* the caller's item sequence
    line_width,       \* the target line width
    cfg,              \* the strategy and its configuration
    pc,               \* "FirstFit" | "KnuthPlass": in the driver loop; "done"; "panic"
    b,                \* the driver loop's item position
    width,            \* FirstFitLayout.width
    stretch,          \* FirstFitLayout.stretch
    shrink,           \* FirstFitLayout.shrink
    lines,            \* FirstFitLayout.lines
    last_breakpoint,  \* FirstFit's held breakpoint (Option<Break>)
    overfull,         \* history: positions FirstFit found with ratio < -1 when about
                      \* to hold them (refused, or clamped to 0 under allow_overflow)
    nodes,            \* KnuthPlassLayout.bump: the arena of Nodes, by allocation order
    active,           \* KnuthPlassLayout.active: head of the active list (0 is None)
    total_width,      \* KnuthPlassLayout.total_width
    total_stretch,    \* KnuthPlassLayout.total_stretch
    total_shrink,     \* KnuthPlassLayout.total_shrink
    result,           \* the Vec<Line> the call returned
    history,          \* the items, configuration and result of each earlier call
    calc              \* a Fixed operation: its operands and what it returned

vars ==
    << items, line_width, cfg, pc, b, width, stretch, shrink, lines,
       last_breakpoint, overfull, nodes, active, total_width, total_stretch,
       total_shrink, result, history, calc >>

ItemAt(i) == items[i + 1]

\* No Fixed operation has been applied.
NoCalc ==
    [a |-> 0, b |-> 0, y |-> 0, op |-> "none", value |-> 0, panicked |-> FALSE]

\* Node::default().
DefaultNode ==
    [position |-> 0, line |-> 0, fitness |-> 0,
     total_width |-> from(0), total_stretch |-> from(0), total_shrink |-> from(0),
     total_demerits |-> from(0), previous |-> 0, link |-> 0]

\* FirstFit::layout_paragraph / KnuthPlass::layout_paragraph: the layout struct
\* as constructed at call entry; for KnuthPlass, run() has allocated the initial
\* active node.
Init ==
    /\ \E c \in Calls : items = c.items /\ line_width = c.line_width
    /\ cfg \in FirstFitConfigs \cup KnuthPlassConfigs
    /\ pc = cfg.strategy
    /\ b = 0
    /\ width = from(0)
    /\ stretch = from(0)
    /\ shrink = from(0)
    /\ lines = << >>
    /\ last_breakpoint = << >>
    /\ overfull = {}
    /\ nodes = IF cfg.strategy = "KnuthPlass" THEN << DefaultNode >> ELSE << >>
    /\ active = IF cfg.strategy = "KnuthPlass" THEN 1 ELSE 0
    /\ total_width = from(0)
    /\ total_stretch = from(0)
    /\ total_shrink = from(0)
    /\ result = << >>
    /\ history = << >>
    /\ calc = NoCalc

(***************************************************************************)
(* FirstFit (src/src/first_fit.rs).                                        *)
(***************************************************************************)
Break(w, y, z, r, m, at) ==
    [width |-> w, stretch |-> y, shrink |-> z, adjustment_ratio |-> r,
     is_mandatory |-> m, at |-> at]

\* FirstFitLayout::break_at on the layout's fields st = [width, stretch, shrink, lines].
break_at(st, brk) ==
    [width |-> Sub(st.width, brk.width),
     stretch |-> Sub(st.stretch, brk.stretch),
     shrink |-> Sub(st.shrink, brk.shrink),
     lines |-> Append(st.lines, Line(brk.at, brk.adjustment_ratio))]

\* A variant of FirstFitCommits that does not force a held mandatory break.
FirstFitCommitsUnforced(held, r) ==
    /\ held # << >>
    /\ (Lt(r, from(-1)) \/ Gt(r, cfg.threshold))

\* A variant of FirstFitCommits that cuts the held breakpoint at every candidate.
FirstFitCommitsAlways(held, r) == held # << >>

\* Whether the held breakpoint is committed when a candidate with ratio r arrives.
FirstFitCommits(held, r) ==
    /\ held # << >>
    /\ \/ Lt(r, from(-1))
       \/ Gt(r, cfg.threshold)
       \/ held[1].is_mandatory

FirstFitFields ==
    [width |-> width, stretch |-> stretch, shrink |-> shrink, lines |-> lines]

\* layout_paragraph, lines 105-114: the layout's fields once the held breakpoint,
\* if it is committed at the candidate with ratio r, is cut.
FirstFitAfterCommit(r) ==
    IF FirstFitCommits(last_breakpoint, r)
    THEN break_at(FirstFitFields, last_breakpoint[1])
    ELSE FirstFitFields

\* A variant of FirstFitRefuses under which no candidate fails the call.
FirstFitRefusesNothing(r) == FALSE

\* A variant of FirstFitRefuses that ignores allow_overflow.
FirstFitRefusesOverfull(r) ==
    \/ Lt(r, from(-1))
    \/ Gt(r, cfg.threshold)

\* layout_paragraph, lines 119-129: whether a candidate with ratio r makes the
\* call return Vec::new(): overfull with overflow disallowed, or (clamped to 0
\* when overfull) above the threshold.
FirstFitRefuses(r) ==
    \/ (Lt(r, from(-1)) /\ ~cfg.allow_overflow)
    \/ Gt(IF Lt(r, from(-1)) THEN from(0) ELSE r, cfg.threshold)

\* layout_paragraph, lines 119-143: the candidate at b, whose ratio on the current
\* line is r, is refused (return Vec::new()) or held.
FirstFitHold(item, leg, st, r) ==
    IF FirstFitRefuses(r)
    THEN /\ pc' = "done"
         /\ result' = << >>
         /\ lines' = st.lines
         /\ width' = st.width
         /\ stretch' = st.stretch
         /\ shrink' = st.shrink
         /\ overfull' = IF Lt(r, from(-1)) THEN overfull \cup {b} ELSE overfull
         /\ UNCHANGED << b, last_breakpoint >>
    ELSE /\ lines' = st.lines
         /\ width' = Add(st.width, leg.width)
         /\ stretch' = Add(st.stretch, leg.stretch)
         /\ shrink' = Add(st.shrink, leg.shrink)
         /\ last_breakpoint' =
               << Break(st.width, st.stretch, st.shrink,
                        IF Lt(r, from(-1)) THEN from(0) ELSE r,
                        is_mandatory_break(item), b) >>
         /\ overfull' = IF Lt(r, from(-1)) THEN overfull \cup {b} ELSE overfull
         /\ b' = b + 1
         /\ UNCHANGED << pc, result >>

FirstFitLegal(item, leg, st) ==
    FirstFitHold(item, leg, st,
                 ItemAdjustmentRatio(item, st.width, st.stretch, st.shrink, line_width))

FirstFitItem(item, leg) ==
    IF leg.is_legal
    THEN FirstFitLegal(item, leg,
             FirstFitAfterCommit(
                 ItemAdjustmentRatio(item, width, stretch, shrink, line_width)))
    ELSE /\ width' = Add(width, leg.width)
         /\ stretch' = Add(stretch, leg.stretch)
         /\ shrink' = Add(shrink, leg.shrink)
         /\ b' = b + 1
         /\ UNCHANGED << pc, result, lines, last_breakpoint, overfull >>

\* One iteration of the loop of FirstFitLayout::layout_paragraph.
FirstFitStep ==
    /\ pc = "FirstFit"
    /\ b < Len(items)
    /\ FirstFitItem(ItemAt(b),
                    is_legal_breakpoint(ItemAt(b),
                                        IF b # 0 THEN << ItemAt(b - 1) >> ELSE << >>))
    /\ UNCHANGED << items, line_width, cfg, history, calc, nodes, active, total_width,
                    total_stretch, total_shrink >>

\* The end of FirstFitLayout::layout_paragraph: flush the held breakpoint.
FirstFitFlush ==
    /\ pc = "FirstFit"
    /\ b = Len(items)
    /\ LET st == IF last_breakpoint # << >>
                 THEN break_at(FirstFitFields, last_breakpoint[1])
                 ELSE FirstFitFields
       IN  /\ lines' = st.lines
           /\ width' = st.width
           /\ stretch' = st.stretch
           /\ shrink' = st.shrink
           /\ result' = st.lines
    /\ pc' = "done"
    /\ UNCHANGED << items, line_width, cfg, history, calc, b, last_breakpoint, overfull, nodes,
                    active, total_width, total_stretch, total_shrink >>

(***************************************************************************)
(* Knuth-Plass (src/src/knuth_plass.rs).                                   *)
(***************************************************************************)
flagged_demerit == from(100)

fitness_demerit == from(100)

first_uniform_line == 0

\* The free function adjustment_ratio of knuth_plass.rs.
RatioOfWidth(wd, stretch_, shrink_, lw) ==
    IF Lt(wd, lw)
    THEN (IF Gt(stretch_, from(0)) THEN Div(Sub(lw, wd), stretch_) ELSE INFINITY)
    ELSE IF Gt(wd, lw)
    THEN (IF Gt(shrink_, from(0)) THEN Div(Sub(lw, wd), shrink_) ELSE INFINITY)
    ELSE from(0)

adjustment_ratio(at, w, stretch_, shrink_, lw) ==
    RatioOfWidth(Add(w, penalty_width(at)), stretch_, shrink_, lw)

\* Fitness::distance on the classes 0..3.
distance(c1, c2) == Abs(c1 - c2)

get_line_width(l) == line_width

\* A variant of KnuthPlass_is_legal_breakpoint in which every Glue is a legal
\* breakpoint, whatever precedes it.
KnuthPlass_every_glue_legal(pos) ==
    [width |-> ItemAt(pos).width, stretch |-> ItemAt(pos).stretch,
     shrink |-> ItemAt(pos).shrink,
     is_legal |-> \/ ItemAt(pos).kind = "Glue"
                  \/ (ItemAt(pos).kind = "Penalty" /\ ~Eq(ItemAt(pos).cost, INFINITY))]

\* KnuthPlassLayout::is_legal_breakpoint for b > 0 or a non-Glue item at 0; a Glue
\* at position 0 indexes items[b - 1] (see IndexUnderflows).
KnuthPlass_is_legal_breakpoint(pos) ==
    LET item == ItemAt(pos)
    IN  CASE item.kind = "Box" ->
               [width |-> item.width, stretch |-> from(0), shrink |-> from(0),
                is_legal |-> FALSE]
          [] item.kind = "Glue" ->
               [width |-> item.width, stretch |-> item.stretch, shrink |-> item.shrink,
                is_legal |-> ItemAt(pos - 1).kind = "Box"]
          [] item.kind = "Penalty" ->
               [width |-> item.width, stretch |-> from(0), shrink |-> from(0),
                is_legal |-> ~Eq(item.cost, INFINITY)]

\* self.items[b - 1] with b = 0: the subtraction underflows usize (a panic with
\* overflow checks, and an out-of-bounds index, also a panic, without).
IndexUnderflows(pos) == ItemAt(pos).kind = "Glue" /\ pos = 0

\* KnuthPlassLayout::adjustment_ratio: line number and ratio of the line a -> b.
NodeAdjustmentRatio(a, pos) ==
    [j |-> a.line + 1,
     r |-> adjustment_ratio(ItemAt(pos),
                            Sub(total_width, a.total_width),
                            Sub(total_stretch, a.total_stretch),
                            Sub(total_shrink, a.total_shrink),
                            get_line_width(a.line + 1))]

\* KnuthPlassLayout::deactivate_node on st = [nodes, active, ...] for the node at index a.
deactivate_node(st, a) ==
    LET n   == st.nodes[a]
        ns1 == IF n.previous # 0
               THEN [st.nodes EXCEPT ![n.previous].link = n.link]
               ELSE st.nodes
    IN  [st EXCEPT !.nodes = ns1,
                   !.active = IF st.active = a THEN n.link ELSE st.active]

\* The fitness class of a ratio.
FitnessOf(r) ==
    IF Lt(r, rat(-1, 2)) THEN 0
    ELSE IF Le(r, rat(1, 2)) THEN 1
    ELSE IF Le(r, from(1)) THEN 2
    ELSE 3

\* 1 + 100 |r|^3.
Badness(r) == Add(from(1), Mul(from(100), powi(abs(r), 3)))

\* demerits_and_fitness: the first d, from the badness term and the penalty cost.
BaseDemerits(bad, cost) ==
    IF Ge(cost, from(0)) THEN powi(Add(bad, cost), 2)
    ELSE IF cost # NEG_INFINITY THEN Sub(powi(bad, 2), powi(cost, 2))
    ELSE powi(bad, 2)

\* demerits_and_fitness: the flagged demerit for a break at pos after node a.
WithFlaggedDemerit(d, a, pos) ==
    Add(d, Mul(Mul(flagged_demerit, penalty_flag(ItemAt(pos))),
               penalty_flag(ItemAt(a.position))))

\* demerits_and_fitness: the fitness demerit and the predecessor's total.
WithFitnessDemerit(d, c, a) ==
    [demerits |-> Add(IF distance(c, a.fitness) > 1 THEN Add(d, fitness_demerit) ELSE d,
                      a.total_demerits),
     fitness |-> c]

\* KnuthPlassLayout::demerits_and_fitness for the line from node a to position pos.
demerits_and_fitness(r, a, pos) ==
    WithFitnessDemerit(
        WithFlaggedDemerit(BaseDemerits(Badness(r), penalty_cost(ItemAt(pos))), a, pos),
        FitnessOf(r), a)

\* KnuthPlassLayout::total_after, from position i on (i = pos at the call).
RECURSIVE TotalAfterFrom(_, _, _)
TotalAfterFrom(pos, i, acc) ==
    IF i >= Len(items) THEN acc
    ELSE LET item == ItemAt(i)
         IN  CASE item.kind = "Box" -> acc
               [] item.kind = "Glue" ->
                    TotalAfterFrom(pos, i + 1,
                                   [width |-> Add(acc.width, item.width),
                                    stretch |-> Add(acc.stretch, item.stretch),
                                    shrink |-> Add(acc.shrink, item.shrink)])
               [] item.kind = "Penalty" ->
                    IF Eq(item.cost, NEG_INFINITY) /\ i > pos THEN acc
                    ELSE TotalAfterFrom(pos, i + 1, acc)

total_after(pos) ==
    TotalAfterFrom(pos, pos,
                   [width |-> total_width, stretch |-> total_stretch,
                    shrink |-> total_shrink])

NoClass == << 0, 0, 0, 0 >>

NoDemerits == << INFINITY, INFINITY, INFINITY, INFINITY >>

\* layout_breakpoint, lines 314-318: node st.a is deactivated or becomes prev_a.
ScanDeactivate(st, pos, r) ==
    IF Lt(r, from(-1)) \/ is_mandatory_break(ItemAt(pos))
    THEN deactivate_node(st, st.a)
    ELSE [st EXCEPT !.prev_a = st.a]

\* layout_breakpoint, lines 321-327: the candidate a with demerits df is recorded.
ScanRecord(st, a, df) ==
    IF Lt(df.demerits, st.class_demerits[df.fitness + 1])
    THEN [st EXCEPT !.class_demerits[df.fitness + 1] = df.demerits,
                    !.class_a[df.fitness + 1] = a,
                    !.min_demerits = IF Lt(df.demerits, st.min_demerits)
                                     THEN df.demerits ELSE st.min_demerits]
    ELSE st

\* layout_breakpoint, lines 319-328: the feasibility test of the line a -> pos.
ScanConsider(st, a, ua, r, pos) ==
    IF Le(from(-1), r) /\ Le(r, cfg.threshold)
    THEN ScanRecord(st, a, demerits_and_fitness(r, ua, pos))
    ELSE st

\* The inner loop of layout_breakpoint: st = [nodes, active, a, prev_a, class_a,
\* class_demerits, min_demerits, fuel]; runs until a is None or the loop breaks.
RECURSIVE ScanActive(_, _)
\* layout_breakpoint, lines 330-338: a = next_a, and the loop's exits.
ScanAdvance(st, next_a, j, pos) ==
    IF next_a = 0 THEN [st EXCEPT !.a = 0, !.fuel = st.fuel - 1]
    ELSE IF st.nodes[next_a].line >= j /\ j < first_uniform_line
    THEN [st EXCEPT !.a = next_a, !.fuel = st.fuel - 1]
    ELSE ScanActive([st EXCEPT !.a = next_a, !.fuel = st.fuel - 1], pos)

\* One pass of the inner loop, for the node ua at st.a with jr = (j, r).
ScanNode(st, pos, ua, jr) ==
    ScanAdvance(ScanConsider(ScanDeactivate(st, pos, jr.r), st.a, ua, jr.r, pos),
                ua.link, jr.j, pos)

ScanActive(st, pos) ==
    IF st.fuel = 0 THEN st
    ELSE ScanNode(st, pos, st.nodes[st.a], NodeAdjustmentRatio(st.nodes[st.a], pos))

\* layout_breakpoint, lines 347-362: the node s for class c is allocated and linked
\* after prev_a (or made the head).
LinkNode(st, s, new) ==
    IF st.prev_a = 0
    THEN [st EXCEPT !.nodes = Append(st.nodes, new), !.active = s, !.prev_a = s]
    ELSE [st EXCEPT !.nodes = [Append(st.nodes, new) EXCEPT ![st.prev_a].link = s],
                    !.prev_a = s]

NewNode(st, pos, ta, c, ca) ==
    [position |-> pos, line |-> st.nodes[ca].line + 1, fitness |-> c,
     total_width |-> ta.width, total_stretch |-> ta.stretch,
     total_shrink |-> ta.shrink,
     total_demerits |-> st.class_demerits[c + 1],
     previous |-> ca, link |-> st.a]

\* The node-creating loop over the four fitness classes, from class c on.
RECURSIVE CreateNodes(_, _, _, _)
CreateNodes(st, pos, ta, c) ==
    IF c > 3 THEN st
    ELSE IF Le(st.class_demerits[c + 1], Add(st.min_demerits, fitness_demerit))
    THEN CreateNodes(LinkNode(st, Len(st.nodes) + 1,
                              NewNode(st, pos, ta, c, st.class_a[c + 1])),
                     pos, ta, c + 1)
    ELSE CreateNodes(st, pos, ta, c + 1)

\* layout_breakpoint, lines 340-365: the nodes created after a scan.
AfterScan(st, pos) ==
    IF Lt(st.min_demerits, INFINITY)
    THEN CreateNodes(st, pos, total_after(pos), 0)
    ELSE st

\* The outer loop of layout_breakpoint.
RECURSIVE BreakpointLoop(_, _)
BreakpointLoop(st, pos) ==
    IF st.a = 0 \/ st.fuel = 0 THEN st
    ELSE BreakpointLoop(
             AfterScan(ScanActive([st EXCEPT !.class_a = NoClass,
                                             !.class_demerits = NoDemerits,
                                             !.min_demerits = INFINITY], pos), pos),
             pos)

\* KnuthPlassLayout::layout_breakpoint: the arena and the active list after
\* position pos is processed (fuel = 0: the scan did not end).
layout_breakpoint(pos) ==
    BreakpointLoop([nodes |-> nodes, active |-> active, a |-> active, prev_a |-> 0,
                    class_a |-> NoClass, class_demerits |-> NoDemerits,
                    min_demerits |-> INFINITY, fuel |-> 2 * Len(nodes) + 2], pos)

\* run(), lines 378-383, once the breakpoint (if legal) is processed into st.
KnuthPlassAdvance(leg, st) ==
    /\ nodes' = st.nodes
    /\ active' = st.active
    /\ IF st.fuel = 0
       THEN /\ pc' = "hang"
            /\ UNCHANGED << b, total_width, total_stretch, total_shrink, result >>
       ELSE IF st.active = 0
       THEN \* return Vec::new()
            /\ pc' = "done"
            /\ result' = << >>
            /\ UNCHANGED << b, total_width, total_stretch, total_shrink >>
       ELSE /\ total_width' = Add(total_width, leg.width)
            /\ total_stretch' = Add(total_stretch, leg.stretch)
            /\ total_shrink' = Add(total_shrink, leg.shrink)
            /\ b' = b + 1
            /\ UNCHANGED << pc, result >>

KnuthPlassProcess(leg) ==
    KnuthPlassAdvance(leg, IF leg.is_legal THEN layout_breakpoint(b)
                           ELSE [nodes |-> nodes, active |-> active, fuel |-> 1])

\* One iteration of the loop over the items in KnuthPlassLayout::run.
KnuthPlassStep ==
    /\ pc = "KnuthPlass"
    /\ b < Len(items)
    /\ IF IndexUnderflows(b)
       THEN /\ pc' = "panic"
            /\ UNCHANGED << b, nodes, active, total_width, total_stretch,
                            total_shrink, result >>
       ELSE KnuthPlassProcess(KnuthPlass_is_legal_breakpoint(b))
    /\ UNCHANGED << items, line_width, cfg, history, calc, width, stretch, shrink, lines,
                    last_breakpoint, overfull >>

\* The indices of the nodes reachable from a along link, at most fuel of them.
RECURSIVE ListFrom(_, _, _)
ListFrom(ns, a, fuel) ==
    IF a = 0 \/ fuel = 0 THEN << >>
    ELSE << a >> \o ListFrom(ns, ns[a].link, fuel - 1)

ActiveList == ListFrom(nodes, active, Len(nodes) + 1)

\* run(): "Choose the active node with the fewest demerits", over list from index i.
RECURSIVE FewestDemerits(_, _, _)
FewestDemerits(list, i, best) ==
    IF i > Len(list) THEN best
    ELSE FewestDemerits(list, i + 1,
                        IF Lt(nodes[list[i]].total_demerits, nodes[best].total_demerits)
                        THEN list[i] ELSE best)

\* run(), lines 390-403 and 429: the node the lines are rebuilt from.  The
\* looseness loop (lines 406-425) assigns its choice to a `b` declared inside
\* its own block, which shadows this node and is dropped at the end of the
\* block; the loop's only effect is the subtraction a.line - k.
ChosenNode == FewestDemerits(ActiveList, 1, active)

\* run(), line 413: a.line - k, a usize subtraction, underflows for some active
\* node a.  Without overflow checks it wraps around and the loop carries on.
LoosenessUnderflows ==
    /\ cfg.looseness # 0
    /\ active # 0
    /\ \E i \in 1..Len(ActiveList) :
          nodes[ActiveList[i]].line < nodes[FewestDemerits(ActiveList, 1, active)].line

\* run(), lines 432-435: the totals of the node before n (zero when there is none).
PreviousTotals(n) ==
    IF n.previous = 0
    THEN [w |-> from(0), y |-> from(0), z |-> from(0)]
    ELSE [w |-> nodes[n.previous].total_width,
          y |-> nodes[n.previous].total_stretch,
          z |-> nodes[n.previous].total_shrink]

\* run(), lines 437-445: the Line reported for node n as line j.
ReportedLine(n, prev, j) ==
    Line(n.position,
         adjustment_ratio(ItemAt(n.position),
                          Sub(n.total_width, prev.w),
                          Sub(n.total_stretch, prev.y),
                          Sub(n.total_shrink, prev.z),
                          get_line_width(j)))

\* run(): the walk backwards from node bn, filling ls[j] (the source's lines[j - 1]).
RECURSIVE WalkBack(_, _, _)
WalkBack(bn, j, ls) ==
    IF j <= 0 THEN ls
    ELSE IF nodes[bn].previous = 0
    THEN [ls EXCEPT ![j] = ReportedLine(nodes[bn], PreviousTotals(nodes[bn]), j)]
    ELSE WalkBack(nodes[bn].previous, j - 1,
                  [ls EXCEPT ![j] = ReportedLine(nodes[bn], PreviousTotals(nodes[bn]), j)])

\* A variant of Reconstruct that leaves the lines in the order of the walk.
ReconstructForwards(bn) ==
    LET ls == WalkBack(bn, nodes[bn].line, [j \in 1..nodes[bn].line |-> Line(0, from(0))])
    IN  [j \in 1..Len(ls) |-> ls[Len(ls) + 1 - j]]

\* run(), lines 429-456: the lines vector, filled from node bn backwards.
Reconstruct(bn) ==
    WalkBack(bn, nodes[bn].line, [j \in 1..nodes[bn].line |-> Line(0, from(0))])

\* The end of KnuthPlassLayout::run: choose the terminal node and rebuild the lines.
KnuthPlassFinish ==
    /\ pc = "KnuthPlass"
    /\ b = Len(items)
    /\ IF active = 0
       THEN /\ result' = << >>
            /\ pc' = "done"
       ELSE IF Len(ActiveList) > Len(nodes)
       THEN /\ pc' = "hang"
            /\ UNCHANGED result
       ELSE /\ result' = Reconstruct(ChosenNode)
            /\ pc' = "done"
    /\ UNCHANGED << items, line_width, cfg, history, calc, b, width, stretch, shrink, lines,
                    last_breakpoint, overfull, nodes, active, total_width,
                    total_stretch, total_shrink >>

\* The looseness loop under overflow checks: a.line - k panics.
KnuthPlassLoosenessPanic ==
    /\ pc = "KnuthPlass"
    /\ b = Len(items)
    /\ LoosenessUnderflows
    /\ pc' = "panic"
    /\ UNCHANGED << items, line_width, cfg, history, calc, b, width, stretch, shrink, lines,
                    last_breakpoint, overfull, nodes, active, total_width,
                    total_stretch, total_shrink, result >>

Next ==
    \/ FirstFitStep
    \/ FirstFitFlush
    \/ KnuthPlassStep
    \/ KnuthPlassFinish
    \/ KnuthPlassLoosenessPanic

Spec == Init /\ [][Next]_vars

(***************************************************************************)
(* A caller that lays the same paragraph out again: every call goes        *)
(* through FirstFit::layout_paragraph or KnuthPlass::layout_paragraph,     *)
(* which build a fresh layout struct from the configuration.               *)
(***************************************************************************)
MaxCalls == 2

\* A variant of FreshLayout in which the lines of the last call survive.
StaleLayout(c) ==
    [width |-> from(0), stretch |-> from(0), shrink |-> from(0), lines |-> lines,
     nodes |-> IF c.strategy = "KnuthPlass" THEN << DefaultNode >> ELSE << >>,
     active |-> IF c.strategy = "KnuthPlass" THEN 1 ELSE 0]

\* The FirstFitLayout or KnuthPlassLayout that layout_paragraph constructs.
FreshLayout(c) ==
    [width |-> from(0), stretch |-> from(0), shrink |-> from(0), lines |-> << >>,
     nodes |-> IF c.strategy = "KnuthPlass" THEN << DefaultNode >> ELSE << >>,
     active |-> IF c.strategy = "KnuthPlass" THEN 1 ELSE 0]

\* The layout struct st installed for a call under configuration c.
Enter(c, st) ==
    /\ cfg' = c
    /\ pc' = c.strategy
    /\ b' = 0
    /\ width' = st.width
    /\ stretch' = st.stretch
    /\ shrink' = st.shrink
    /\ lines' = st.lines
    /\ last_breakpoint' = << >>
    /\ overfull' = {}
    /\ nodes' = st.nodes
    /\ active' = st.active
    /\ total_width' = from(0)
    /\ total_stretch' = from(0)
    /\ total_shrink' = from(0)
    /\ result' = << >>

\* After a call has returned, the caller calls layout_paragraph again on the
\* same items and line width, under any configuration.
Recall ==
    /\ pc = "done"
    /\ Len(history) + 1 < MaxCalls
    /\ history' = Append(history, [items |-> items, cfg |-> cfg, result |-> result])
    /\ \E c \in FirstFitConfigs \cup KnuthPlassConfigs : Enter(c, FreshLayout(c))
    /\ UNCHANGED << items, line_width, calc >>

NextCalls ==
    \/ FirstFitStep
    \/ FirstFitFlush
    \/ KnuthPlassStep
    \/ KnuthPlassFinish
    \/ KnuthPlassLoosenessPanic
    \/ Recall

SpecCalls == Init /\ [][NextCalls]_vars

(***************************************************************************)
(* The feasible chains of a paragraph, measured as KnuthPlassLayout        *)
(* measures a line: the running totals at the break less the totals after  *)
(* the previous break.                                                     *)
(***************************************************************************)
Done == pc = "done"

\* The index of the paragraph's terminal penalty.
TerminalPos == Len(items) - 1

LegalAt(p) ==
    is_legal_breakpoint(ItemAt(p), IF p # 0 THEN << ItemAt(p - 1) >> ELSE << >>).is_legal

ExactlyOneMandatory ==
    \A p \in 0..TerminalPos : is_mandatory_break(ItemAt(p)) <=> p = TerminalPos

NoTotals == [width |-> from(0), stretch |-> from(0), shrink |-> from(0)]

\* run(): total_width, total_stretch and total_shrink on reaching position p.
RECURSIVE PrefixTotals(_)
PrefixTotals(p) ==
    IF p = 0 THEN NoTotals
    ELSE LET acc == PrefixTotals(p - 1)
             leg == is_legal_breakpoint(ItemAt(p - 1), << >>)
         IN  [width |-> Add(acc.width, leg.width),
              stretch |-> Add(acc.stretch, leg.stretch),
              shrink |-> Add(acc.shrink, leg.shrink)]

\* The totals a node at position a records (a < 0: the initial node).
AfterTotals(a) ==
    IF a < 0 THEN NoTotals ELSE TotalAfterFrom(a, a, PrefixTotals(a))

\* The adjustment ratio of the line from the break at a to the break at p.
LineRatio(a, p) ==
    ItemAdjustmentRatio(ItemAt(p),
                        Sub(PrefixTotals(p).width, AfterTotals(a).width),
                        Sub(PrefixTotals(p).stretch, AfterTotals(a).stretch),
                        Sub(PrefixTotals(p).shrink, AfterTotals(a).shrink),
                        line_width)

Feasible(r) == Le(from(-1), r) /\ Le(r, cfg.threshold)

Least(S) == CHOOSE x \in S : \A y \in S : x <= y

\* The chain S of break positions, walked from the break at a, reached with the
\* node nd after n lines: whether every line is feasible, the total demerits and
\* the line count.
RECURSIVE ChainEval(_, _, _, _)
ChainEval(S, a, nd, n) ==
    IF \A p \in S : p <= a
    THEN [ok |-> TRUE, demerits |-> nd.total_demerits, count |-> n]
    ELSE IF ~Feasible(LineRatio(a, Least({q \in S : q > a})))
    THEN [ok |-> FALSE, demerits |-> INFINITY, count |-> n]
    ELSE ChainEval(S, Least({q \in S : q > a}),
                   [position |-> Least({q \in S : q > a}),
                    fitness |-> demerits_and_fitness(
                                    LineRatio(a, Least({q \in S : q > a})), nd,
                                    Least({q \in S : q > a})).fitness,
                    total_demerits |-> demerits_and_fitness(
                                    LineRatio(a, Least({q \in S : q > a})), nd,
                                    Least({q \in S : q > a})).demerits],
                   n + 1)

EvalChain(S) == ChainEval(S, -1, DefaultNode, 0)

\* Every chain of legal breakpoints ending at the terminal penalty.
Chains ==
    { S \cup {TerminalPos} : S \in SUBSET { p \in 0..TerminalPos - 1 : LegalAt(p) } }

FeasibleChains == { S \in Chains : EvalChain(S).ok }

ResultChain == { result[i].break_at : i \in 1..Len(result) }

IsMinimal(S) ==
    \A T \in FeasibleChains : Le(EvalChain(S).demerits, EvalChain(T).demerits)

StrictlyIncreasing ==
    \A i \in 1..Len(result) - 1 : result[i].break_at < result[i + 1].break_at

\* C1: KnuthPlass with looseness 0, on a paragraph ending in its only mandatory
\* break, returns a non-empty result of minimal total demerits whenever some
\* chain of legal breakpoints has every line ratio within [-1, threshold].
C1_OptimalLayout ==
    (/\ Done
     /\ cfg.strategy = "KnuthPlass"
     /\ cfg.looseness = 0
     /\ ExactlyOneMandatory
     /\ FeasibleChains # {})
    => (/\ result # << >>
        /\ ResultChain \in FeasibleChains
        /\ IsMinimal(ResultChain))

\* C2: the break_at values of a non-empty result of either strategy are
\* strictly increasing and the last one is the index of the terminal penalty.
C2_BreaksIncreaseToTerminal ==
    (Done /\ result # << >>)
    => (StrictlyIncreasing /\ result[Len(result)].break_at = TerminalPos)

C2_Witness ==
    /\ Done
    /\ cfg.strategy = "KnuthPlass"
    /\ Len(result) >= 2
    /\ StrictlyIncreasing
    /\ result[Len(result)].break_at = TerminalPos

\* The width of the items strictly between the breaks at a and p with every
\* glue set by Line::glue_width at ratio r, plus the penalty width at p.
RECURSIVE ContentWidth(_, _, _)
ContentWidth(a, p, r) ==
    IF p <= a + 1 THEN penalty_width(ItemAt(p))
    ELSE Add(IF ItemAt(a + 1).kind = "Glue"
             THEN glue_width(r, ItemAt(a + 1).width, ItemAt(a + 1).stretch,
                             ItemAt(a + 1).shrink)
             ELSE ItemAt(a + 1).width,
             ContentWidth(a + 1, p, r))

PreviousBreak(i) == IF i = 1 THEN -1 ELSE result[i - 1].break_at

\* Line i of the result has a finite ratio that was not clamped for overflow.
Adjustable(i) ==
    /\ IsFinite(result[i].adjustment_ratio)
    /\ result[i].break_at \notin overfull

\* C3: for every line of a non-empty result whose ratio is finite and was not
\* clamped, the items between the previous break and this one, glue set at
\* glue_width, plus the penalty width at the break, sum to the line width.
C3_RatioFillsLine ==
    Done =>
        \A i \in 1..Len(result) :
            Adjustable(i) =>
                Eq(ContentWidth(PreviousBreak(i), result[i].break_at,
                                result[i].adjustment_ratio),
                   line_width)

\* An earlier call e ran FirstFit without overflow at an infinite threshold.
GreedyCall(e) ==
    /\ e.cfg.strategy = "FirstFit"
    /\ e.cfg.threshold = INFINITY
    /\ ~e.cfg.allow_overflow

\* C4: at threshold +infinity and looseness 0, KnuthPlass returns a non-empty
\* result on every paragraph and line width on which FirstFit (overflow
\* disallowed) returned a non-empty result.
C4_KnuthPlassDominatesFirstFit ==
    (/\ Done
     /\ cfg.strategy = "KnuthPlass"
     /\ cfg.threshold = INFINITY
     /\ cfg.looseness = 0)
    => \A i \in 1..Len(history) :
           (GreedyCall(history[i]) /\ history[i].result # << >>) => result # << >>

\* C5: at threshold +infinity FirstFit returns the empty result exactly when
\* overflow is disallowed and some breakpoint about to be held had ratio < -1;
\* with overflow allowed it never returns empty.
C5_FirstFitFailsOnlyOnOverflow ==
    (Done /\ cfg.strategy = "FirstFit" /\ cfg.threshold = INFINITY)
    => (result = << >> <=> (~cfg.allow_overflow /\ overfull # {}))

C5_Witness ==
    /\ Done
    /\ cfg.strategy = "FirstFit"
    /\ cfg.threshold = INFINITY
    /\ ~cfg.allow_overflow
    /\ overfull # {}
    /\ result = << >>

\* The call is FirstFit at threshold +infinity on "aaa bbb" at line width lw.
AaaBbbCall(lw) ==
    /\ Done
    /\ cfg.strategy = "FirstFit"
    /\ cfg.threshold = INFINITY
    /\ items = AaaBbb
    /\ line_width = from(lw)

\* C6: FirstFit at threshold +infinity, overflow disallowed, lays "aaa bbb" out
\* at line width 3 as two lines: a break at the space (index 3) with ratio 0,
\* then a break at the terminal penalty (index 8).
C6_AaaBbbBreaksAtSpace ==
    (AaaBbbCall(3) /\ ~cfg.allow_overflow)
    => (/\ Len(result) = 2
        /\ result[1] = Line(3, from(0))
        /\ result[2].break_at = 8)

\* C7: FirstFit at threshold +infinity lays "aaa bbb" out at line width 7 as
\* one line, broken at the terminal penalty (index 8) with ratio 0.
C7_AaaBbbSingleLine ==
    AaaBbbCall(7) => result = << Line(8, from(0)) >>

C7_Witness ==
    /\ AaaBbbCall(7)
    /\ Len(result) = 1
    /\ result[1].break_at = 8
    /\ Eq(result[1].adjustment_ratio, from(0))

FeasibleCounts == { EvalChain(S).count : S \in FeasibleChains }

\* The line counts of the feasible chains of minimal total demerits.
OptimalCounts ==
    { EvalChain(S).count : S \in { T \in FeasibleChains : IsMinimal(T) } }

Dist(x, y) == IF x >= y THEN x - y ELSE y - x

\* C8: where the looseness-0 optimum has k lines, KnuthPlass with looseness 1
\* returns a feasible result of k+1 lines if a feasible chain of k+1 lines
\* exists, and otherwise the feasible result whose line count is closest to k+1.
C8_LoosenessAddsLine ==
    (/\ Done
     /\ cfg.strategy = "KnuthPlass"
     /\ cfg.looseness = 1
     /\ result # << >>)
    => \A k \in OptimalCounts :
           /\ ResultChain \in FeasibleChains
           /\ IF k + 1 \in FeasibleCounts
              THEN Len(result) = k + 1
              ELSE \A c \in FeasibleCounts :
                       Dist(Len(result), k + 1) <= Dist(c, k + 1)

\* C9: no call aborts: no step indexes outside the items, underflows an
\* unsigned subtraction or fails to terminate.
C9_NeverAborts == pc \notin {"panic", "hang"}

\* C10: a call leaves the items unchanged, and a call under the configuration
\* of an earlier call on the same items and line width returns the same lines,
\* whatever was called in between.
C10_Purity ==
    \A i \in 1..Len(history) :
        /\ history[i].items = items
        /\ (Done /\ history[i].cfg = cfg) => history[i].result = result

C10_Witness ==
    /\ Done
    /\ history # << >>
    /\ history[1].cfg = cfg
    /\ Len(result) >= 2
    /\ history[1].result = result

\* C12: every break_at of a result of either strategy is a legal breakpoint of
\* the input: no Box, a Glue only directly after a Box, a Penalty only if its
\* cost is not +infinity.
C12_BreaksAreLegal ==
    Done =>
        \A i \in 1..Len(result) :
            /\ result[i].break_at \in 0..TerminalPos
            /\ LegalAt(result[i].break_at)

C12_Witness ==
    /\ Done
    /\ cfg.strategy = "KnuthPlass"
    /\ Len(result) >= 2
    /\ ItemAt(result[1].break_at).kind = "Glue"
    /\ \E p \in 1..TerminalPos - 1 :
           ItemAt(p).kind = "Glue" /\ ~LegalAt(p) /\ p \notin ResultChain

\* C13: in every non-empty result of either strategy each Penalty of cost
\* -infinity of the input is the break_at of some line.
C13_MandatoryBreaksTaken ==
    (Done /\ result # << >>)
    => \A p \in 0..TerminalPos : is_mandatory_break(ItemAt(p)) => p \in ResultChain

C13_Witness ==
    /\ Done
    /\ cfg.strategy = "FirstFit"
    /\ result # << >>
    /\ \E p \in 0..TerminalPos - 1 :
           /\ is_mandatory_break(ItemAt(p))
           /\ p \in ResultChain
           /\ ItemAt(p + 1).kind = "Box"

\* C14: for every break item, line totals and target that the optimal layout
\* meets, its adjustment ratio equals Item::adjustment_ratio; an overfull line
\* without shrink has ratio -infinity, an underfull one without stretch +infinity.
C14_SharedRatioFormula ==
    (pc = "KnuthPlass" /\ b < Len(items))
    => \A n \in 1..Len(nodes) :
           adjustment_ratio(ItemAt(b),
                            Sub(total_width, nodes[n].total_width),
                            Sub(total_stretch, nodes[n].total_stretch),
                            Sub(total_shrink, nodes[n].total_shrink),
                            line_width)
           = ItemAdjustmentRatio(ItemAt(b),
                                 Sub(total_width, nodes[n].total_width),
                                 Sub(total_stretch, nodes[n].total_stretch),
                                 Sub(total_shrink, nodes[n].total_shrink),
                                 line_width)

\* C16: every line of a non-empty KnuthPlass result carries a ratio r with
\* -1 <= r <= threshold.
C16_ReportedRatioInRange ==
    (Done /\ cfg.strategy = "KnuthPlass")
    => \A i \in 1..Len(result) : Feasible(result[i].adjustment_ratio)

\* The ratio of the candidate at b on the current line, once a held breakpoint
\* that the candidate forces out has been cut.
CandidateRatio ==
    ItemAdjustmentRatio(
        ItemAt(b),
        FirstFitAfterCommit(
            ItemAdjustmentRatio(ItemAt(b), width, stretch, shrink, line_width)).width,
        FirstFitAfterCommit(
            ItemAdjustmentRatio(ItemAt(b), width, stretch, shrink, line_width)).stretch,
        FirstFitAfterCommit(
            ItemAdjustmentRatio(ItemAt(b), width, stretch, shrink, line_width)).shrink,
        line_width)

\* FirstFit is at a legal breakpoint whose ratio on the current line is < -1.
OverfullCandidate ==
    /\ pc = "FirstFit"
    /\ b < Len(items)
    /\ LegalAt(b)
    /\ Lt(CandidateRatio, from(-1))

KnuthPlassBreakpoint ==
    /\ pc = "KnuthPlass"
    /\ b < Len(items)
    /\ ~IndexUnderflows(b)
    /\ KnuthPlass_is_legal_breakpoint(b).is_legal

\* The ratio of the line from node a to the breakpoint b.
RatioTo(a) == NodeAdjustmentRatio(nodes[a], b).r

\* Node a reaches b with a ratio in [-1, threshold]: the lines whose demerits
\* the pass computes.
Reaches(a) == Ge(RatioTo(a), from(-1)) /\ Le(RatioTo(a), cfg.threshold)

\* The break that node a represents is a flagged Penalty; the initial node
\* (line 0) represents the start of the paragraph, which is no break.
RepresentsFlaggedBreak(a) ==
    /\ nodes[a].line > 0
    /\ ItemAt(nodes[a].position).kind = "Penalty"
    /\ ItemAt(nodes[a].position).flagged

\* The demerits of the line a -> b by the stated formula.
StatedDemerits(a) ==
    LET r    == RatioTo(a)
        p    == penalty_cost(ItemAt(b))
        bad  == Add(from(1), Mul(from(100), powi(abs(r), 3)))
        base == IF Ge(p, from(0)) THEN powi(Add(bad, p), 2)
                ELSE IF IsFinite(p) THEN Sub(powi(bad, 2), powi(p, 2))
                ELSE powi(bad, 2)
        flag == IF /\ ItemAt(b).kind = "Penalty"
                   /\ ItemAt(b).flagged
                   /\ RepresentsFlaggedBreak(a)
                THEN flagged_demerit ELSE from(0)
        c    == IF Lt(r, rat(-1, 2)) THEN 0
                ELSE IF Le(r, rat(1, 2)) THEN 1
                ELSE IF Le(r, from(1)) THEN 2 ELSE 3
        fit  == IF Abs(c - nodes[a].fitness) > 1 THEN fitness_demerit ELSE from(0)
    IN  [demerits |-> Add(Add(Add(base, nodes[a].total_demerits), flag), fit),
         fitness |-> c]

\* C20: for every active node a that reaches the legal breakpoint b, the
\* initial node included, demerits_and_fitness yields base + a.total_demerits
\* + flagged_demerit (both breaks flagged Penalties) + fitness_demerit (classes
\* more than one bin apart), with the stated base and class of r.
C20_DemeritsFormula ==
    KnuthPlassBreakpoint =>
        \A i \in 1..Len(ActiveList) :
            Reaches(ActiveList[i]) =>
                demerits_and_fitness(RatioTo(ActiveList[i]), nodes[ActiveList[i]], b)
                    = StatedDemerits(ActiveList[i])

\* The same statement for the nodes that represent a break (every active node
\* but the initial one).
C20_DemeritsFormulaAfterBreak ==
    KnuthPlassBreakpoint =>
        \A i \in 1..Len(ActiveList) :
            (Reaches(ActiveList[i]) /\ nodes[ActiveList[i]].line > 0) =>
                demerits_and_fitness(RatioTo(ActiveList[i]), nodes[ActiveList[i]], b)
                    = StatedDemerits(ActiveList[i])

\* The demerits the pass computes for the line from node a to b.
DemeritsTo(a) == demerits_and_fitness(RatioTo(a), nodes[a], b).demerits

\* The active nodes that reach b, and those that reach it in fitness class c.
Reaching == {n \in {ActiveList[i] : i \in 1..Len(ActiveList)} : Reaches(n)}
ReachingInClass(c) == {n \in Reaching : FitnessOf(RatioTo(n)) = c}

\* The nodes of S whose demerits are least in S.
LeastDemerits(S) == {n \in S : \A m \in S : Le(DemeritsTo(n), DemeritsTo(m))}

\* Class c is due a node at b: some active node reaches b in class c and the
\* class minimum is within fitness_demerit of the minimum over all classes.
DueNode(c) ==
    /\ ReachingInClass(c) # {}
    /\ \E n \in LeastDemerits(ReachingInClass(c)) :
       \E g \in LeastDemerits(Reaching) :
           Le(DemeritsTo(n), Add(DemeritsTo(g), fitness_demerit))

\* Node s is a well-formed new node for the breakpoint b.
WellFormedAt(s) ==
    /\ s.position = b
    /\ \E n \in LeastDemerits(ReachingInClass(s.fitness)) :
           /\ s.previous = n
           /\ s.total_demerits = DemeritsTo(n)
           /\ s.line = nodes[n].line + 1

\* The nodes that the step at b appends to the arena.
CreatedNodes == SubSeq(nodes', Len(nodes) + 1, Len(nodes'))

\* C19: at a legal breakpoint b a node is created for class c exactly when
\* some active node reaches b in class c and the class minimum is at most the
\* global minimum plus fitness_demerit; each created node has position b, the
\* class minimum as total_demerits, the node achieving it as previous and the
\* next line number; one node per class, so at most four.
C19_NodeCreation ==
    [][KnuthPlassBreakpoint =>
          /\ Len(CreatedNodes) <= 4
          /\ \A c \in 0..3 :
                 DueNode(c) <=> \E k \in 1..Len(CreatedNodes) : CreatedNodes[k].fitness = c
          /\ \A k, l \in 1..Len(CreatedNodes) :
                 CreatedNodes[k].fitness = CreatedNodes[l].fitness => k = l
          /\ \A k \in 1..Len(CreatedNodes) : WellFormedAt(CreatedNodes[k])]_vars

\* The same statement at the breakpoints where some line to b has finite
\* demerits.
C19_NodeCreationFinite ==
    [][(KnuthPlassBreakpoint /\ \E n \in Reaching : IsFinite(DemeritsTo(n))) =>
          /\ Len(CreatedNodes) <= 4
          /\ \A c \in 0..3 :
                 DueNode(c) <=> \E k \in 1..Len(CreatedNodes) : CreatedNodes[k].fitness = c
          /\ \A k, l \in 1..Len(CreatedNodes) :
                 CreatedNodes[k].fitness = CreatedNodes[l].fitness => k = l
          /\ \A k \in 1..Len(CreatedNodes) : WellFormedAt(CreatedNodes[k])]_vars

\* Node a is not deactivated at b: its ratio to b is at least -1 and b is not
\* a mandatory break.
Survives(a) == ~(Lt(RatioTo(a), from(-1)) \/ is_mandatory_break(ItemAt(b)))

\* The active nodes that are not deactivated at b, in list order.
Survivors == SelectSeq(ActiveList, Survives)

\* The arena indices of the nodes that the step at b creates, in creation order.
CreatedAt == [i \in 1..(Len(nodes') - Len(nodes)) |-> Len(nodes) + i]

\* A node that survives at b precedes, in the active list, one that does not.
DeactivatedBehindSurvivor ==
    \E i, j \in 1..Len(ActiveList) :
        i < j /\ Survives(ActiveList[i]) /\ ~Survives(ActiveList[j])

\* C18: after the legal breakpoint b is processed the active list is, in
\* order, the previously active nodes not deactivated at b followed by the
\* nodes created at b; no deactivated node is reachable, none of the others
\* is dropped and the list has no cycle.
C18_ActiveListIntegrity ==
    [][KnuthPlassBreakpoint => ActiveList' = Survivors \o CreatedAt]_vars

\* The same statement at the breakpoints where the deactivated nodes are a
\* prefix of the active list.
C18_ActiveListIntegrityPrefix ==
    [][(KnuthPlassBreakpoint /\ ~DeactivatedBehindSurvivor)
          => ActiveList' = Survivors \o CreatedAt]_vars

(***************************************************************************)
(* Fixed (src/src/math.rs): the saturating fixed-point backend, here over  *)
(* an 8-bit representation with 4 fractional bits (fixed::types::I4F4).    *)
(* A Fixed value is modelled by its bits, the integer value * 2^FracBits.  *)
(***************************************************************************)
FixedBits == 8
FracBits == 4
MaxPow == 3

\* Fixed::MAX and Fixed::MIN.
FixedMAX == 2^(FixedBits - 1) - 1
FixedMIN == -(2^(FixedBits - 1))

\* The values of Fixed<F>.
Fixed == FixedMIN..FixedMAX

\* Num::INFINITY and Num::NEG_INFINITY of Fixed.
FixedINFINITY == FixedMAX
FixedNEG_INFINITY == FixedMIN

\* Fixed::from_num(1).
FixedOne == 2^FracBits

\* saturating_*: a result outside the representation becomes MAX or MIN.
Saturate(x) == IF x > FixedMAX THEN FixedMAX ELSE IF x < FixedMIN THEN FixedMIN ELSE x

\* The representation has no value for every product and quotient; the
\* library rounds the exact result num / den (den > 0) to a neighbouring
\* value. Each direction it may take is considered.
RoundingModes == {"floor", "ceil", "zero"}

Round(num, den, m) ==
    LET floor == num \div den
        ceil  == -((-num) \div den)
    IN  CASE m = "floor" -> floor
          [] m = "ceil" -> ceil
          [] m = "zero" -> IF num < 0 THEN ceil ELSE floor

\* Two's-complement addition without saturation.
wrapping_add(x, y) == ((x + y - FixedMIN) % 2^FixedBits) + FixedMIN

\* Add for Fixed.
saturating_add(x, y) == Saturate(x + y)

\* Sub for Fixed.
saturating_sub(x, y) == Saturate(x - y)

\* Mul for Fixed.
saturating_mul(x, y, m) == Saturate(Round(x * y, FixedOne, m))

\* Div for Fixed, y # 0.
saturating_div(x, y, m) == Saturate(Round(x * FixedOne * Sign(y), Abs(y), m))

\* Num::powi for Fixed: result = from_num(1); for _ in 0..y { result = result * self }.
RECURSIVE FixedPowiLoop(_, _, _, _)
FixedPowiLoop(result_, self, y, m) ==
    IF y = 0 THEN result_
    ELSE FixedPowiLoop(saturating_mul(result_, self, m), self, y - 1, m)

FixedPowi(self, y, m) == FixedPowiLoop(FixedOne, self, y, m)

\* No layout call is in progress: the state of the variables of the layouts
\* while Fixed operations are applied.
IdleLayout ==
    /\ items = << >>
    /\ line_width = from(0)
    /\ cfg = [strategy |-> "FirstFit", threshold |-> from(1),
              allow_overflow |-> FALSE, looseness |-> 0]
    /\ pc = "Fixed"
    /\ b = 0
    /\ width = from(0)
    /\ stretch = from(0)
    /\ shrink = from(0)
    /\ lines = << >>
    /\ last_breakpoint = << >>
    /\ overfull = {}
    /\ nodes = << >>
    /\ active = 0
    /\ total_width = from(0)
    /\ total_stretch = from(0)
    /\ total_shrink = from(0)
    /\ result = << >>
    /\ history = << >>

InitFixed ==
    /\ IdleLayout
    /\ calc \in [a : Fixed, b : Fixed, y : {0}, op : {"none"}, value : {0},
                 panicked : {FALSE}]

Returned(op, v) == calc' = [calc EXCEPT !.op = op, !.value = v]

\* a + b.
FixedAdd ==
    /\ pc = "Fixed" /\ calc.op = "none"
    /\ Returned("add", saturating_add(calc.a, calc.b))
    /\ UNCHANGED << items, line_width, cfg, pc, b, width, stretch, shrink, lines,
                    last_breakpoint, overfull, nodes, active, total_width,
                    total_stretch, total_shrink, result, history >>

\* a - b.
FixedSub ==
    /\ pc = "Fixed" /\ calc.op = "none"
    /\ Returned("sub", saturating_sub(calc.a, calc.b))
    /\ UNCHANGED << items, line_width, cfg, pc, b, width, stretch, shrink, lines,
                    last_breakpoint, overfull, nodes, active, total_width,
                    total_stretch, total_shrink, result, history >>

\* a * b.
FixedMul ==
    /\ pc = "Fixed" /\ calc.op = "none"
    /\ \E m \in RoundingModes : Returned("mul", saturating_mul(calc.a, calc.b, m))
    /\ UNCHANGED << items, line_width, cfg, pc, b, width, stretch, shrink, lines,
                    last_breakpoint, overfull, nodes, active, total_width,
                    total_stretch, total_shrink, result, history >>

\* a / b; the library panics on a zero divisor.
FixedDiv ==
    /\ pc = "Fixed" /\ calc.op = "none"
    /\ IF calc.b = 0
       THEN calc' = [calc EXCEPT !.op = "div", !.panicked = TRUE]
       ELSE \E m \in RoundingModes : Returned("div", saturating_div(calc.a, calc.b, m))
    /\ UNCHANGED << items, line_width, cfg, pc, b, width, stretch, shrink, lines,
                    last_breakpoint, overfull, nodes, active, total_width,
                    total_stretch, total_shrink, result, history >>

\* a.powi(y).
FixedPowiCall ==
    /\ pc = "Fixed" /\ calc.op = "none"
    /\ \E y \in 0..MaxPow : \E m \in RoundingModes :
           calc' = [calc EXCEPT !.op = "powi", !.y = y, !.value = FixedPowi(calc.a, y, m)]
    /\ UNCHANGED << items, line_width, cfg, pc, b, width, stretch, shrink, lines,
                    last_breakpoint, overfull, nodes, active, total_width,
                    total_stretch, total_shrink, result, history >>

NextFixed ==
    \/ FixedAdd
    \/ FixedSub
    \/ FixedMul
    \/ FixedDiv
    \/ FixedPowiCall

SpecFixed == InitFixed /\ [][NextFixed]_vars

\* r is num / den (den > 0, in units of the last place) clamped to [MIN, MAX].
ExactClamped(num, den, r) ==
    IF num > FixedMAX * den THEN r = FixedMAX
    ELSE IF num < FixedMIN * den THEN r = FixedMIN
    ELSE r * den = num

\* r is num / den (den > 0) clamped to [MIN, MAX], up to less than one unit
\* in the last place when num / den is not representable.
RoundedClamped(num, den, r) ==
    IF num >= FixedMAX * den THEN r = FixedMAX
    ELSE IF num <= FixedMIN * den THEN r = FixedMIN
    ELSE Abs(r * den - num) < den

\* The values an n-fold saturating product of x can take.
RECURSIVE NFoldProducts(_, _)
NFoldProducts(x, n) ==
    IF n = 0 THEN {FixedOne}
    ELSE IF n = 1 THEN {x}
    ELSE { saturating_mul(p, x, m) : p \in NFoldProducts(x, n - 1), m \in RoundingModes }

\* C17: a + b and a - b are the exact result clamped to [MIN, MAX]; a * b and
\* a / b (b # 0) are the exact result rounded to the representation (off by
\* less than one unit in the last place) and clamped to [MIN, MAX]; no result
\* wraps around; INFINITY is MAX and NEG_INFINITY is MIN; powi(x, n) is the
\* n-fold saturating product and powi(x, 0) = 1.
C17_FixedSaturatesRounded ==
    /\ FixedINFINITY = FixedMAX /\ FixedNEG_INFINITY = FixedMIN
    /\ calc.value \in Fixed
    /\ calc.op = "add" => ExactClamped(calc.a + calc.b, 1, calc.value)
    /\ calc.op = "sub" => ExactClamped(calc.a - calc.b, 1, calc.value)
    /\ calc.op = "mul" => RoundedClamped(calc.a * calc.b, FixedOne, calc.value)
    /\ (calc.op = "div" /\ calc.b # 0)
          => RoundedClamped(calc.a * FixedOne * Sign(calc.b), Abs(calc.b), calc.value)
    /\ calc.op = "powi" => calc.value \in NFoldProducts(calc.a, calc.y)
    /\ (calc.op = "powi" /\ calc.y = 0) => calc.value = FixedOne

\* A sum beyond MAX has been returned as MAX, and not wrapped to a negative value.
C17_Witness ==
    /\ calc.op = "add"
    /\ calc.a + calc.b > FixedMAX
    /\ calc.value = FixedMAX

\* C17 as stated: each of a + b, a - b, a * b and a / b (b # 0) equals the
\* exact result clamped to [MIN, MAX].
C17_FixedSaturatesExact ==
    /\ FixedINFINITY = FixedMAX /\ FixedNEG_INFINITY = FixedMIN
    /\ calc.value \in Fixed
    /\ calc.op = "add" => ExactClamped(calc.a + calc.b, 1, calc.value)
    /\ calc.op = "sub" => ExactClamped(calc.a - calc.b, 1, calc.value)
    /\ calc.op = "mul" => ExactClamped(calc.a * calc.b, FixedOne, calc.value)
    /\ (calc.op = "div" /\ calc.b # 0)
          => ExactClamped(calc.a * FixedOne * Sign(calc.b), Abs(calc.b), calc.value)
    /\ calc.op = "powi" => calc.value \in NFoldProducts(calc.a, calc.y)
    /\ (calc.op = "powi" /\ calc.y = 0) => calc.value = FixedOne

(***************************************************************************)
(* FirstFit<Fixed<F>>: src/src/first_fit.rs and Item (src/src/lib.rs)      *)
(* instantiated with the Fixed backend.                                    *)
(***************************************************************************)
\* The Fixed value equal to the f32 value x; the infinities of f32 are the
\* INFINITY and NEG_INFINITY of Fixed.
ToFixed(x) ==
    IF x = INFINITY THEN FixedINFINITY
    ELSE IF x = NEG_INFINITY THEN FixedNEG_INFINITY
    ELSE (x.n * FixedOne) \div x.d

\* The f32 value equal to the Fixed value v.
FromFixed(v) == Norm(v, FixedOne)

\* x is one of the infinities or a value that Fixed holds exactly, strictly
\* between MIN and MAX.
RepresentableInFixed(x) ==
    \/ x \in {INFINITY, NEG_INFINITY}
    \/ /\ IsFinite(x)
       /\ (x.n * FixedOne) % x.d = 0
       /\ (x.n * FixedOne) \div x.d > FixedMIN
       /\ (x.n * FixedOne) \div x.d < FixedMAX

FixedItem(item) ==
    [kind |-> item.kind, width |-> ToFixed(item.width), stretch |-> ToFixed(item.stretch),
     shrink |-> ToFixed(item.shrink), cost |-> ToFixed(item.cost), flagged |-> item.flagged]

\* Item::is_legal_breakpoint over Fixed; pred is an Option.
Fixed_is_legal_breakpoint(item, pred) ==
    CASE item.kind = "Box" ->
           [width |-> item.width, stretch |-> 0, shrink |-> 0, is_legal |-> FALSE]
      [] item.kind = "Glue" ->
           [width |-> item.width, stretch |-> item.stretch, shrink |-> item.shrink,
            is_legal |-> (pred # << >> /\ pred[1].kind = "Box")]
      [] item.kind = "Penalty" ->
           [width |-> item.width, stretch |-> 0, shrink |-> 0,
            is_legal |-> item.cost # FixedINFINITY]

\* Item::is_mandatory_break over Fixed.
Fixed_is_mandatory_break(item) == item.kind = "Penalty" /\ item.cost = FixedNEG_INFINITY

\* Item::adjustment_ratio over Fixed once the penalty width is added.
FixedRatioOfWidth(wd, stretch_, shrink_, lw, m) ==
    IF wd < lw
    THEN (IF stretch_ > 0 THEN saturating_div(saturating_sub(lw, wd), stretch_, m)
          ELSE FixedINFINITY)
    ELSE IF wd > lw
    THEN (IF shrink_ > 0 THEN saturating_div(saturating_sub(lw, wd), shrink_, m)
          ELSE FixedNEG_INFINITY)
    ELSE 0

\* Item::adjustment_ratio over Fixed.
FixedAdjustmentRatio(item, w, stretch_, shrink_, lw, m) ==
    FixedRatioOfWidth(
        saturating_add(w, IF item.kind = "Penalty" THEN item.width ELSE 0),
        stretch_, shrink_, lw, m)

\* FirstFitLayout::break_at over Fixed.
Fixed_break_at(st, brk) ==
    [width |-> saturating_sub(st.width, brk.width),
     stretch |-> saturating_sub(st.stretch, brk.stretch),
     shrink |-> saturating_sub(st.shrink, brk.shrink),
     lines |-> Append(st.lines, Line(brk.at, FromFixed(brk.adjustment_ratio)))]

\* layout_paragraph, lines 141-143 over Fixed.
FixedAccumulate(st, leg) ==
    [st EXCEPT !.width = saturating_add(@, leg.width),
               !.stretch = saturating_add(@, leg.stretch),
               !.shrink = saturating_add(@, leg.shrink)]

\* layout_paragraph, lines 105-114 over Fixed.
FixedAfterCommit(call, st, held, r) ==
    IF /\ held # << >>
       /\ \/ r < -FixedOne
          \/ r > call.threshold
          \/ held[1].is_mandatory
    THEN Fixed_break_at(st, held[1])
    ELSE st

RECURSIVE FixedFirstFitLoop(_, _, _, _)

\* layout_paragraph, lines 119-143 over Fixed: the candidate at i with ratio r
\* on the current line ends the call with Vec::new() or is held.
FixedHold(call, i, st, r) ==
    IF \/ (r < -FixedOne /\ ~call.allow_overflow)
       \/ (IF r < -FixedOne THEN 0 ELSE r) > call.threshold
    THEN << >>
    ELSE FixedFirstFitLoop(
             call, i + 1,
             FixedAccumulate(st, Fixed_is_legal_breakpoint(call.items[i + 1], << >>)),
             << Break(st.width, st.stretch, st.shrink,
                      IF r < -FixedOne THEN 0 ELSE r,
                      Fixed_is_mandatory_break(call.items[i + 1]), i) >>)

FixedLegal(call, i, st) ==
    FixedHold(call, i, st,
              FixedAdjustmentRatio(call.items[i + 1], st.width, st.stretch, st.shrink,
                                   call.line_width, call.mode))

\* FirstFitLayout::layout_paragraph over Fixed from item i on; held is last_breakpoint.
FixedFirstFitLoop(call, i, st, held) ==
    IF i = Len(call.items)
    THEN (IF held # << >> THEN Fixed_break_at(st, held[1]).lines ELSE st.lines)
    ELSE IF Fixed_is_legal_breakpoint(
                call.items[i + 1],
                IF i # 0 THEN << call.items[i] >> ELSE << >>).is_legal
    THEN FixedLegal(call, i,
             FixedAfterCommit(call, st, held,
                 FixedAdjustmentRatio(call.items[i + 1], st.width, st.stretch, st.shrink,
                                      call.line_width, call.mode)))
    ELSE FixedFirstFitLoop(
             call, i + 1,
             FixedAccumulate(st, Fixed_is_legal_breakpoint(call.items[i + 1], << >>)),
             held)

\* FirstFit<Fixed<F>>::layout_paragraph.
FixedFirstFit(call) ==
    FixedFirstFitLoop(call, 0, [width |-> 0, stretch |-> 0, shrink |-> 0, lines |-> << >>],
                      << >>)

\* Every metric of the call is held exactly by both backends.
RepresentableCall ==
    /\ RepresentableInFixed(line_width)
    /\ RepresentableInFixed(cfg.threshold)
    /\ \A i \in 1..Len(items) :
           /\ RepresentableInFixed(items[i].width)
           /\ RepresentableInFixed(items[i].stretch)
           /\ RepresentableInFixed(items[i].shrink)
           /\ RepresentableInFixed(items[i].cost)

\* After the f32 call has returned, the same paragraph is laid out with
\* FirstFit<Fixed<F>> under the same configuration; the f32 call is recorded.
FirstFitFixed ==
    /\ pc = "done"
    /\ cfg.strategy = "FirstFit"
    /\ RepresentableCall
    /\ history' = Append(history, [items |-> items, cfg |-> cfg, result |-> result])
    /\ \E m \in RoundingModes :
           result' = FixedFirstFit(
                         [items |-> [i \in 1..Len(items) |-> FixedItem(items[i])],
                          line_width |-> ToFixed(line_width),
                          threshold |-> ToFixed(cfg.threshold),
                          allow_overflow |-> cfg.allow_overflow,
                          mode |-> m])
    /\ pc' = "Fixed"
    /\ UNCHANGED << items, line_width, cfg, calc, b, width, stretch, shrink, lines,
                    last_breakpoint, overfull, nodes, active, total_width,
                    total_stretch, total_shrink >>

NextBackends ==
    \/ FirstFitStep
    \/ FirstFitFlush
    \/ FirstFitFixed

SpecBackends == Init /\ [][NextBackends]_vars

\* The break positions of a layout.
BreakPositions(ls) == [i \in 1..Len(ls) |-> ls[i].break_at]

\* C11: on numerically equivalent inputs the layout with the Fixed backend
\* selects the same break positions as the layout with the f32 backend, also
\* when intermediate values saturate.
C11_BackendsSelectSameBreaks ==
    (pc = "Fixed" /\ history # << >>)
        => BreakPositions(result) = BreakPositions(history[1].result)

====
